---- MODULE Spec2Model ----
(***************************************************************************)
(* mynk: client side of a directory synchroniser (src/src/main.rs).        *)
(* One sync round is                                                       *)
(*   build_state -> build_post -> POST {uri}/sync -> handle_response       *)
(* over a sync root that holds user files and the baseline file            *)
(* .mynk-state.json.  The user changes the files of the root between       *)
(* rounds; the remote may answer a request with any status and body.       *)
(***************************************************************************)
EXTENDS Integers, Sequences, FiniteSets, TLC

\* ---------------------------------------------------------------- bounds
MaxVersion == 2
MaxDirectives == 2

Files == {"a.txt", "b.txt"}
Contents == {"", "x"}
NoFile == "<absent>"
\* the versions a directive of the remote may carry
ServerVersions == {1, 2}

\* ------------------------------------------------------------- data model
\* sha256::digest of a file's bytes: injective, and never the empty string
digest(c) == "sha256:" \o c

FileEntry(f, h, v, a) == [filename |-> f, hash |-> h, version |-> v, action |-> a]

\* Vec<FileEntry> -> HashMap<String, FileEntry> (.map(|e| (e.filename.clone(), e)).collect())
VecToMap(vec) ==
    [f \in {e.filename : e \in vec} |-> CHOOSE e \in vec : e.filename = f]

\* HashMap::into_values().collect()
MapValues(m) == {m[f] : f \in DOMAIN m}

\* the baseline file: zero-length, or a JSON array of FileEntry
EmptyFile == [kind |-> "empty", entries |-> {}]
JsonFile(vec) == [kind |-> "json", entries |-> vec]

\* a baseline file that is neither: serde_json::from_reader returns an error
CorruptFile == [kind |-> "corrupt", entries |-> {}]

\* a parser that takes whatever it cannot read for an empty array
StateParses_lenient(file) == TRUE

StateParses(file) == file.kind # "corrupt"

\* reading the baseline: a zero-length file is Vec::new(), else the parsed array
LoadState(file) == IF file.kind = "empty" THEN {} ELSE file.entries

VARIABLES
    disk,        \* the user files of the sync root: Files -> Contents or NoFile
    state_file,  \* .mynk-state.json
    pc,          \* position of the sync round
    old_vec,     \* build_state: the baseline it loaded (a local, gone in build_post)
    new_vec,     \* build_state: the entries of its directory walk (likewise)
    post,        \* build_post: the request body {files, summary}
    resp,        \* what the remote exchange produced
    result,      \* what sync_files returned: "none", "ok", "err"
    last,        \* the previous round, kept until the next request is sent and
                 \* only while no file has changed since: how it ended, and
                 \* what its `files` carried if its exchange failed
    dirty,       \* a file changed after the directory walk of the running round
    pc2          \* position of a second `mynk sync` process on the same root

vars == <<disk, state_file, pc, old_vec, new_vec, post, resp, result, last,
          dirty, pc2>>

NoPost == [files |-> {}, summary |-> {}]
NoResp == [kind |-> "none", body |-> <<>>]
NoLast == [resp |-> "none", result |-> "none", files |-> {}]

\* ------------------------------------------------------------ build_state
\* ScanDir with tentative entries that start at version 0
ScanDir_version0(d) ==
    {FileEntry(f, digest(d[f]), 0, "create") : f \in {g \in Files : d[g] # NoFile}}

\* the WalkDir loop: one tentative entry per regular file
ScanDir(d) ==
    {FileEntry(f, digest(d[f]), 1, "create") : f \in {g \in Files : d[g] # NoFile}}

\* compare_state_keys that tags a vanished file delete with an empty hash
compare_state_keys_blank_hash(new_map, old_map) ==
    LET old_keys == DOMAIN old_map
        new_keys == DOMAIN new_map
        all_keys == old_keys \cup new_keys
        kept == {f \in all_keys :
                    ~(f \notin new_keys /\ old_map[f].action = "delete")}
    IN  [f \in kept |->
            IF f \notin old_keys
            THEN [new_map[f] EXCEPT !.action = "create"]
            ELSE IF f \notin new_keys
            THEN FileEntry(f, "", old_map[f].version, "delete")
            ELSE IF old_map[f].action = "delete"
            THEN new_map[f]
            ELSE IF old_map[f].hash # new_map[f].hash
            THEN [new_map[f] EXCEPT !.action = "edit",
                                    !.version = old_map[f].version + 1]
            ELSE [new_map[f] EXCEPT !.action = "pass",
                                    !.version = old_map[f].version]]

\* compare_state_keys that tags an edit without raising the version
compare_state_keys_no_bump(new_map, old_map) ==
    LET old_keys == DOMAIN old_map
        new_keys == DOMAIN new_map
        all_keys == old_keys \cup new_keys
        kept == {f \in all_keys :
                    ~(f \notin new_keys /\ old_map[f].action = "delete")}
    IN  [f \in kept |->
            IF f \notin old_keys
            THEN [new_map[f] EXCEPT !.action = "create"]
            ELSE IF f \notin new_keys
            THEN FileEntry(f, old_map[f].hash, old_map[f].version, "delete")
            ELSE IF old_map[f].action = "delete"
            THEN new_map[f]
            ELSE IF old_map[f].hash # new_map[f].hash
            THEN [new_map[f] EXCEPT !.action = "edit",
                                    !.version = old_map[f].version]
            ELSE [new_map[f] EXCEPT !.action = "pass",
                                    !.version = old_map[f].version]]

compare_state_keys(new_map, old_map) ==
    LET old_keys == DOMAIN old_map
        new_keys == DOMAIN new_map
        all_keys == old_keys \cup new_keys
        kept == {f \in all_keys :
                    ~(f \notin new_keys /\ old_map[f].action = "delete")}
    IN  [f \in kept |->
            IF f \notin old_keys
            THEN [new_map[f] EXCEPT !.action = "create"]
            ELSE IF f \notin new_keys
            THEN FileEntry(f, old_map[f].hash, old_map[f].version, "delete")
            ELSE IF old_map[f].action = "delete"
            THEN new_map[f]
            ELSE IF old_map[f].hash # new_map[f].hash
            THEN [new_map[f] EXCEPT !.action = "edit",
                                    !.version = old_map[f].version + 1]
            ELSE [new_map[f] EXCEPT !.action = "pass",
                                    !.version = old_map[f].version]]

\* Reconcile that appends the walk's entries to the baseline instead of
\* merging the two by filename
Reconcile_appends(old, new) ==
    IF old = {} THEN new ELSE old \cup new

\* updated_vec of build_state
Reconcile(old, new) ==
    IF old = {} THEN new
    ELSE MapValues(compare_state_keys(VecToMap(new), VecToMap(old)))

build_state ==
    /\ pc = "idle"
    /\ StateParses(state_file)
    /\ LET old == LoadState(state_file)
           new == ScanDir(disk)
           updated_vec == Reconcile(old, new)
       IN  /\ \A e \in updated_vec : e.version <= MaxVersion
           /\ old_vec' = old
           /\ new_vec' = new
           /\ state_file' = JsonFile(updated_vec)
    /\ pc' = "build_post"
    /\ dirty' = FALSE
    /\ UNCHANGED <<pc2, disk, post, resp, result, last>>

\* .expect("Failed to parse .mynk-state.json"): the process panics before it
\* has walked the directory or written anything
build_state_panic ==
    /\ pc = "idle"
    /\ ~StateParses(state_file)
    /\ result' = "panic"
    /\ pc' = "done"
    /\ UNCHANGED <<pc2, dirty, disk, state_file, old_vec, new_vec, post, resp, last>>

\* ------------------------------------------------------------- build_post
\* read_to_string(..).unwrap_or_default()
ReadOrDefault(d, f) == IF d[f] = NoFile THEN "" ELSE d[f]

\* files_array without the filter on the action
files_array_unfiltered(vec, d) ==
    {[filename |-> e.filename, version |-> e.version,
      contents |-> ReadOrDefault(d, e.filename),
      hash |-> e.hash, action |-> e.action] : e \in vec}

files_array(vec, d) ==
    {[filename |-> e.filename, version |-> e.version,
      contents |-> ReadOrDefault(d, e.filename),
      hash |-> e.hash, action |-> e.action] : e \in {x \in vec : x.action # "pass"}}

summary_array(vec) ==
    {[filename |-> e.filename, hash |-> e.hash] : e \in vec}

build_post ==
    /\ pc = "build_post"
    /\ post' = [files |-> files_array(state_file.entries, disk),
                summary |-> summary_array(state_file.entries)]
    /\ pc' = "send"
    /\ old_vec' = {}
    /\ new_vec' = {}
    /\ UNCHANGED <<pc2, dirty, disk, state_file, resp, result, last>>

\* ----------------------------------------------------- the remote exchange
\* a directive of the response array; a delete carries no version or contents
Directive ==
    [filename : Files, action : {"delete"}, version : {1}, contents : {""}]
    \cup [filename : Files, action : {"create"}, version : ServerVersions,
          contents : Contents]

RECURSIVE SeqsUpTo(_, _)
SeqsUpTo(S, n) ==
    IF n = 0 THEN {<<>>}
    ELSE LET shorter == SeqsUpTo(S, n - 1)
         IN  shorter \cup {Append(s, x) : s \in {t \in shorter : Len(t) = n - 1}, x \in S}

Responses == SeqsUpTo(Directive, MaxDirectives)

\* client.post(..).send().await? fails: sync_files returns the error
send_error ==
    /\ pc = "send"
    /\ resp' = [kind |-> "transport_error", body |-> <<>>]
    /\ result' = "err"
    /\ pc' = "done"
    /\ last' = NoLast
    /\ UNCHANGED <<pc2, dirty, disk, state_file, old_vec, new_vec, post>>

\* the else branch of resp.status().is_success(): eprintln!, then Ok(())
sync_failed_status ==
    /\ pc = "send"
    /\ resp' = [kind |-> "status_error", body |-> <<>>]
    /\ result' = "ok"
    /\ pc' = "done"
    /\ last' = NoLast
    /\ UNCHANGED <<pc2, dirty, disk, state_file, old_vec, new_vec, post>>

\* a success status whose body is no JSON: resp.json().await? fails
body_error ==
    /\ pc = "send"
    /\ resp' = [kind |-> "body_error", body |-> <<>>]
    /\ result' = "err"
    /\ pc' = "done"
    /\ last' = NoLast
    /\ UNCHANGED <<pc2, dirty, disk, state_file, old_vec, new_vec, post>>

\* -------------------------------------------------------- handle_response
\* the hash stored for a written file
written_hash(contents) == IF contents = "" THEN "" ELSE digest(contents)

\* apply_directive with a delete arm that forgets state_map.remove(filename)
apply_directive_keeps_entry(s, d) ==
    IF d.action = "delete"
    THEN [disk |-> [s.disk EXCEPT ![d.filename] = NoFile],
          state_map |-> s.state_map]
    ELSE [disk |-> [s.disk EXCEPT ![d.filename] = d.contents],
          state_map |-> [f \in DOMAIN s.state_map \cup {d.filename} |->
                            IF f = d.filename
                            THEN FileEntry(f, IF d.contents = "" THEN ""
                                              ELSE digest(d.contents),
                                           d.version, "pass")
                            ELSE s.state_map[f]]]

\* one iteration of the loop over the response array, on the pair
\* (filesystem, state_map)
apply_directive(s, d) ==
    IF d.action = "delete"
    THEN [disk |-> [s.disk EXCEPT ![d.filename] = NoFile],
          state_map |-> [f \in DOMAIN s.state_map \ {d.filename} |-> s.state_map[f]]]
    ELSE [disk |-> [s.disk EXCEPT ![d.filename] = d.contents],
          state_map |-> [f \in DOMAIN s.state_map \cup {d.filename} |->
                            IF f = d.filename
                            THEN FileEntry(f, written_hash(d.contents), d.version, "pass")
                            ELSE s.state_map[f]]]

RECURSIVE apply_all(_, _)
apply_all(s, ds) ==
    IF ds = <<>> THEN s ELSE apply_all(apply_directive(s, Head(ds)), Tail(ds))

\* a success status with a JSON body resp_json: an array of directives, all of
\* whose filesystem calls succeed
handle_response ==
    /\ pc = "send"
    /\ \E body \in Responses :
         LET start == [disk |-> disk, state_map |-> VecToMap(LoadState(state_file))]
             end == apply_all(start, body)
         IN  /\ resp' = [kind |-> "array", body |-> body]
             /\ disk' = end.disk
             /\ state_file' = JsonFile(MapValues(end.state_map))
    /\ result' = "ok"
    /\ pc' = "done"
    /\ last' = NoLast
    /\ UNCHANGED <<pc2, dirty, old_vec, new_vec, post>>

\* handle_response_io_error that saves state_map on its way out
handle_response_io_error_saves ==
    /\ pc = "send"
    /\ \E body \in Responses \ {<<>>} :
         LET start == [disk |-> disk, state_map |-> VecToMap(LoadState(state_file))]
             end == apply_all(start, SubSeq(body, 1, Len(body) - 1))
         IN  /\ resp' = [kind |-> "array", body |-> body]
             /\ disk' = end.disk
             /\ state_file' = JsonFile(MapValues(end.state_map))
    /\ result' = "err"
    /\ pc' = "done"
    /\ last' = NoLast
    /\ UNCHANGED <<pc2, dirty, old_vec, new_vec, post>>

\* the same, but a filesystem call of a directive returns an error: the ?
\* operator leaves handle_response before the baseline is written.  body is
\* the response up to the failing directive; the loop never reads the rest.
handle_response_io_error ==
    /\ pc = "send"
    /\ \E body \in Responses \ {<<>>} :
         LET start == [disk |-> disk, state_map |-> VecToMap(LoadState(state_file))]
             end == apply_all(start, SubSeq(body, 1, Len(body) - 1))
         IN  /\ resp' = [kind |-> "array", body |-> body]
             /\ disk' = end.disk
    /\ result' = "err"
    /\ pc' = "done"
    /\ last' = NoLast
    /\ UNCHANGED <<pc2, dirty, state_file, old_vec, new_vec, post>>

\* a success status with a JSON body that is no array
handle_response_not_array ==
    /\ pc = "send"
    /\ resp' = [kind |-> "not_array", body |-> <<>>]
    /\ result' = "err"
    /\ pc' = "done"
    /\ last' = NoLast
    /\ UNCHANGED <<pc2, dirty, disk, state_file, old_vec, new_vec, post>>

\* ------------------------------------------------------------------ main
\* sync_files has returned; the process exits
finish ==
    /\ pc = "done"
    /\ last' = IF dirty THEN NoLast
               ELSE IF resp.kind \in {"transport_error", "status_error"}
               THEN [resp |-> resp.kind, result |-> result,
                     files |-> {<<i.filename, i.action>> : i \in post.files}]
               ELSE IF resp.kind = "array" /\ result = "ok"
               THEN [resp |-> resp.kind, result |-> result, files |-> {}]
               ELSE NoLast
    /\ dirty' = FALSE
    /\ pc' = "idle"
    /\ old_vec' = {}
    /\ new_vec' = {}
    /\ post' = NoPost
    /\ resp' = NoResp
    /\ result' = "none"
    /\ UNCHANGED <<pc2, disk, state_file>>

\* ------------------------------------------------------------------ user
\* the user changes the files of the root between two rounds
user_write ==
    /\ pc = "idle"
    /\ \E f \in Files, c \in Contents :
         /\ disk[f] # c
         /\ disk' = [disk EXCEPT ![f] = c]
    /\ last' = NoLast
    /\ UNCHANGED <<pc2, dirty, state_file, pc, old_vec, new_vec, post, resp, result>>

user_remove ==
    /\ pc = "idle"
    /\ \E f \in Files :
         /\ disk[f] # NoFile
         /\ disk' = [disk EXCEPT ![f] = NoFile]
    /\ last' = NoLast
    /\ UNCHANGED <<pc2, dirty, state_file, pc, old_vec, new_vec, post, resp, result>>

\* the user changes a file while a round is between the directory walk of
\* build_state and the content reads of build_post
user_write_mid ==
    /\ pc = "build_post"
    /\ \E f \in Files, c \in Contents :
         /\ disk[f] # c
         /\ disk' = [disk EXCEPT ![f] = c]
    /\ dirty' = TRUE
    /\ last' = NoLast
    /\ UNCHANGED <<pc2, state_file, pc, old_vec, new_vec, post, resp, result>>

user_remove_mid ==
    /\ pc = "build_post"
    /\ \E f \in Files :
         /\ disk[f] # NoFile
         /\ disk' = [disk EXCEPT ![f] = NoFile]
    /\ dirty' = TRUE
    /\ last' = NoLast
    /\ UNCHANGED <<pc2, state_file, pc, old_vec, new_vec, post, resp, result>>

\* between two rounds the baseline file is overwritten with bytes that are no
\* array of FileEntry (a hand edit, a torn write)
corrupt_state ==
    /\ pc = "idle"
    /\ state_file # CorruptFile
    /\ state_file' = CorruptFile
    /\ last' = NoLast
    /\ UNCHANGED <<pc2, dirty, disk, pc, old_vec, new_vec, post, resp, result>>

\* ------------------------------------------------- a second mynk process
\* The same sync_files, run once by another process in the same root.
\* Nothing in sync_files takes a lock, so its steps interleave freely with the
\* first process's; only what it does to the shared files is recorded.
RoundRunning == pc \in {"build_post", "send", "done"}

build_state2 ==
    /\ pc2 = "idle"
    /\ StateParses(state_file)
    /\ LET updated_vec == Reconcile(LoadState(state_file), ScanDir(disk))
       IN  /\ \A e \in updated_vec : e.version <= MaxVersion
           /\ state_file' = JsonFile(updated_vec)
    /\ pc2' = "build_post"
    /\ last' = NoLast
    /\ UNCHANGED <<dirty, disk, pc, old_vec, new_vec, post, resp, result>>

build_post2 ==
    /\ pc2 = "build_post"
    /\ pc2' = "send"
    /\ UNCHANGED <<dirty, disk, state_file, pc, old_vec, new_vec, post, resp,
                   result, last>>

\* the request fails, is answered with a non-success status, or with a body
\* that is no JSON array: the process ends without touching a file
round_fails2 ==
    /\ pc2 = "send"
    /\ pc2' = "exited"
    /\ UNCHANGED <<dirty, disk, state_file, pc, old_vec, new_vec, post, resp,
                   result, last>>

handle_response2 ==
    /\ pc2 = "send"
    /\ \E body \in Responses :
         LET start == [disk |-> disk, state_map |-> VecToMap(LoadState(state_file))]
             end == apply_all(start, body)
         IN  /\ disk' = end.disk
             /\ state_file' = JsonFile(MapValues(end.state_map))
             /\ dirty' = (dirty \/ (RoundRunning /\ disk' # disk))
    /\ pc2' = "exited"
    /\ last' = NoLast
    /\ UNCHANGED <<pc, old_vec, new_vec, post, resp, result>>

handle_response2_io_error ==
    /\ pc2 = "send"
    /\ \E body \in Responses \ {<<>>} :
         LET start == [disk |-> disk, state_map |-> VecToMap(LoadState(state_file))]
             end == apply_all(start, SubSeq(body, 1, Len(body) - 1))
         IN  /\ disk' = end.disk
             /\ dirty' = (dirty \/ (RoundRunning /\ disk' # disk))
    /\ pc2' = "exited"
    /\ last' = NoLast
    /\ UNCHANGED <<state_file, pc, old_vec, new_vec, post, resp, result>>

\* ----------------------------------------------------------- specification
\* after `mynk init`: create_root_state has created a zero-length baseline
Init ==
    /\ disk \in [Files -> Contents \cup {NoFile}]
    /\ state_file = EmptyFile
    /\ pc = "idle"
    /\ old_vec = {}
    /\ new_vec = {}
    /\ post = NoPost
    /\ resp = NoResp
    /\ result = "none"
    /\ last = NoLast
    /\ dirty = FALSE
    /\ pc2 = "idle"

Next ==
    \/ build_state
    \/ build_post
    \/ send_error
    \/ sync_failed_status
    \/ body_error
    \/ handle_response
    \/ handle_response_io_error
    \/ handle_response_not_array
    \/ finish
    \/ user_write
    \/ user_remove

Spec == Init /\ [][Next]_vars

\* rounds over a baseline file that may have become unreadable
NextLoad ==
    \/ Next
    \/ corrupt_state
    \/ build_state_panic

SpecLoad == Init /\ [][NextLoad]_vars

\* rounds during which the user keeps working in the root
NextRace ==
    \/ Next
    \/ user_write_mid
    \/ user_remove_mid

SpecRace == Init /\ [][NextRace]_vars

\* two processes, each running one round on the same root
NextTwo ==
    \/ build_state
    \/ build_post
    \/ send_error
    \/ sync_failed_status
    \/ body_error
    \/ handle_response
    \/ handle_response_io_error
    \/ handle_response_not_array
    \/ build_state2
    \/ build_post2
    \/ round_fails2
    \/ handle_response2
    \/ handle_response2_io_error

SpecTwo == Init /\ [][NextTwo]_vars

\* ---------------------------------------------------------------- helpers
Tracked(vec, f) == \E e \in vec : e.filename = f

\* directive i of a response is the last one for its filename
LastFor(body, i) ==
    \A j \in (i + 1)..Len(body) : body[j].filename # body[i].filename

\* the round has ended with a response array applied and the baseline saved
RoundSucceeded == pc = "done" /\ resp.kind = "array" /\ result = "ok"

\* build_state has just returned
Reconciled == pc = "build_post"

\* ------------------------------------------------------------------ claims

\* C1 (delete precedence): after a reconciliation pass on a non-empty baseline,
\* a filename whose baseline entry is tagged delete and which the scan found
\* is not in the reconciled mapping with action create.
C1_DeletePrecedence ==
    (Reconciled /\ old_vec # {}) =>
        \A o \in old_vec :
            (o.action = "delete" /\ Tracked(new_vec, o.filename)) =>
                ~ \E e \in state_file.entries :
                    e.filename = o.filename /\ e.action = "create"

\* C2 (network failure leaves the baseline untouched): the baseline file is
\* written only by a round whose exchange has succeeded, and apart from the
\* user only such a round changes the files of the root.
C2_BaselineWrittenAfterExchange ==
    [][ (state_file' # state_file =>
            (pc = "send" /\ resp'.kind = "array" /\ result' = "ok"))
        /\ (disk' # disk =>
            ((pc = "idle" /\ pc' = "idle")
             \/ (pc = "send" /\ resp'.kind = "array"))) ]_vars

\* C3 (a failed round is retryable): when the previous round's exchange failed
\* and no file has changed since, every (filename, action) that round put in
\* `files` is in the `files` of this round's request again.
C3_FailedRoundRetried ==
    (pc = "send" /\ last.resp \in {"transport_error", "status_error"}) =>
        \A fa \in last.files :
            \E i \in post.files : i.filename = fa[1] /\ i.action = fa[2]

\* C4 (version monotonicity): for a filename in both the baseline and the
\* reconciled mapping the reconciled version is >= the baseline version, and
\* is the baseline version + 1 exactly when the scanned hash differs from the
\* baseline hash, and the baseline version otherwise.
C4_VersionMonotonic ==
    Reconciled =>
        \A o \in old_vec : \A e \in state_file.entries :
            (o.filename = e.filename) =>
                LET changed == \E n \in new_vec :
                                  n.filename = o.filename /\ n.hash # o.hash
                IN  /\ e.version >= o.version
                    /\ changed <=> (e.version = o.version + 1)
                    /\ ~changed => (e.version = o.version)

\* C5 (idempotence): a pass that follows a successful round with no file
\* changed in between tags every entry pass, keeps every version of the
\* baseline that round saved, and the request built from it has no `files`.
C5_Idempotent ==
    (last.resp = "array" /\ last.result = "ok") =>
        /\ Reconciled =>
              \A e \in state_file.entries :
                  /\ e.action = "pass"
                  /\ \E o \in old_vec :
                        o.filename = e.filename /\ o.version = e.version
        /\ pc = "send" => post.files = {}

\* C6: after a successful round every entry of the saved baseline is tagged
\* pass.
C6_AllPassAfterSuccess ==
    RoundSucceeded => \A e \in state_file.entries : e.action = "pass"

\* C7: after a successful round, for a directive that is not a delete (and is
\* the last one for its filename) the file holds the directive's contents and
\* the baseline entry has the digest of these contents, the directive's
\* version and action pass.
C7_WriteDirectiveApplied ==
    RoundSucceeded =>
        \A i \in 1..Len(resp.body) :
            LET d == resp.body[i]
            IN  (d.action # "delete" /\ LastFor(resp.body, i)) =>
                    /\ disk[d.filename] = d.contents
                    /\ FileEntry(d.filename, digest(d.contents), d.version, "pass")
                          \in state_file.entries

\* C8: after a successful round, the file of a delete directive (the last
\* directive for its filename) is neither on disk nor in the saved baseline.
C8_DeleteDirectiveApplied ==
    RoundSucceeded =>
        \A i \in 1..Len(resp.body) :
            LET d == resp.body[i]
            IN  (d.action = "delete" /\ LastFor(resp.body, i)) =>
                    /\ disk[d.filename] = NoFile
                    /\ ~Tracked(state_file.entries, d.filename)

\* a delete directive was applied to a file the round had just uploaded as new
C8_Witness ==
    /\ RoundSucceeded
    /\ \E i \in 1..Len(resp.body) :
          /\ resp.body[i].action = "delete"
          /\ LastFor(resp.body, i)
          /\ \E item \in post.files :
                item.filename = resp.body[i].filename /\ item.action = "create"

\* C9: a filename leaves the saved baseline only in a round whose response
\* carries a delete directive for it; until then a locally deleted file keeps
\* its entry.
C9_RemovedOnlyByDirective ==
    [][ \A f \in Files :
          (Tracked(state_file.entries, f) /\ ~Tracked(state_file'.entries, f)) =>
              /\ pc = "send"
              /\ resp'.kind = "array"
              /\ \E i \in 1..Len(resp'.body) :
                    resp'.body[i].filename = f /\ resp'.body[i].action = "delete" ]_vars

\* C10: a round whose request is answered with a non-success status returns
\* an error.
C10_StatusErrorFails ==
    (pc = "done" /\ resp.kind = "status_error") => result = "err"

\* build_post has just returned
PostBuilt == pc = "send"

\* C12: `files` holds exactly one item for every entry of the reconciled
\* mapping that is not tagged pass, none for an entry tagged pass; the item
\* carries the entry's filename, version, hash and action, and the item of a
\* delete entry has empty contents.
C12_FilesSelection ==
    PostBuilt =>
        /\ \A e \in state_file.entries :
              LET items == {i \in post.files : i.filename = e.filename}
              IN  IF e.action = "pass"
                  THEN items = {}
                  ELSE /\ Cardinality(items) = 1
                       /\ \A i \in items :
                             /\ i.version = e.version
                             /\ i.hash = e.hash
                             /\ i.action = e.action
                             /\ (e.action = "delete" => i.contents = "")
        /\ \A i \in post.files : Tracked(state_file.entries, i.filename)

\* a request built from a mapping with a pass entry and a delete entry
C12_Witness ==
    /\ PostBuilt
    /\ \E e \in state_file.entries : e.action = "pass"
    /\ \E i \in post.files : i.action = "delete"

\* C13: `summary` holds exactly one element for every entry of the reconciled
\* mapping, carrying the entry's filename, hash and version.
C13_SummaryComplete ==
    PostBuilt =>
        /\ \A e \in state_file.entries :
              LET elems == {x \in post.summary : x.filename = e.filename}
              IN  /\ Cardinality(elems) = 1
                  /\ \A x \in elems :
                        /\ x.hash = e.hash
                        /\ "version" \in DOMAIN x
                        /\ x.version = e.version
        /\ \A x \in post.summary : Tracked(state_file.entries, x.filename)

\* the entries of the saved baseline for filename f
EntriesFor(f) == {e \in state_file.entries : e.filename = f}

\* C15: after a reconciliation pass, a baseline filename that the scan did not
\* find is absent from the reconciled mapping if its baseline entry was tagged
\* delete, and otherwise has the baseline hash and version and action delete.
C15_GoneFromDisk ==
    Reconciled =>
        \A o \in old_vec :
            ~Tracked(new_vec, o.filename) =>
                IF o.action = "delete"
                THEN EntriesFor(o.filename) = {}
                ELSE EntriesFor(o.filename) =
                        {FileEntry(o.filename, o.hash, o.version, "delete")}

\* one pass met both cases: a pending delete dropped, a vanished file tagged
C15_Witness ==
    /\ Reconciled
    /\ \E o \in old_vec :
          /\ o.action = "delete"
          /\ ~Tracked(new_vec, o.filename)
    /\ \E o \in old_vec :
          /\ o.action # "delete"
          /\ ~Tracked(new_vec, o.filename)

\* C16: after a reconciliation pass, a filename in the baseline (not tagged
\* delete there) and in the scan has the scanned hash; with a hash other than
\* the baseline's its action is edit and its version the baseline's + 1,
\* otherwise its action is pass and its version the baseline's.
C16_PresentInBoth ==
    Reconciled =>
        \A o \in old_vec : \A n \in new_vec :
            (o.filename = n.filename /\ o.action # "delete") =>
                EntriesFor(o.filename) =
                    {IF n.hash # o.hash
                     THEN FileEntry(o.filename, n.hash, o.version + 1, "edit")
                     ELSE FileEntry(o.filename, n.hash, o.version, "pass")}

\* an edit of a file whose baseline entry was still tagged create, and a file
\* left alone whose baseline entry was tagged edit
C16_Witness ==
    /\ Reconciled
    /\ \E o \in old_vec : \E n \in new_vec :
          o.filename = n.filename /\ o.action = "create" /\ n.hash # o.hash
    /\ \E o \in old_vec : \E n \in new_vec :
          o.filename = n.filename /\ o.action = "edit" /\ n.hash = o.hash

\* C17: after a reconciliation pass, a scanned filename with no baseline entry
\* is in the reconciled mapping with action create, version 1 and the scanned
\* hash, be the baseline empty or not.
C17_FirstObservation ==
    Reconciled =>
        \A n \in new_vec :
            ~Tracked(old_vec, n.filename) =>
                EntriesFor(n.filename) =
                    {FileEntry(n.filename, n.hash, 1, "create")}

\* a new file met by compare_state_keys, next to a tracked one
C17_Witness ==
    /\ Reconciled
    /\ old_vec # {}
    /\ \E n \in new_vec : ~Tracked(old_vec, n.filename)

\* C18: the saved baseline never holds two entries with the same filename.
C18_KeyUnique ==
    \A e1 \in state_file.entries : \A e2 \in state_file.entries :
        e1.filename = e2.filename => e1 = e2

\* a baseline saved after a response with two different writes of one file
C18_Witness ==
    /\ RoundSucceeded
    /\ Len(resp.body) = 2
    /\ resp.body[1].filename = resp.body[2].filename
    /\ resp.body[1].action # "delete"
    /\ resp.body[2].action # "delete"
    /\ resp.body[1].contents # resp.body[2].contents
    /\ Tracked(state_file.entries, resp.body[1].filename)

\* C20: a response step that ends in an error, be the body no array or a
\* directive failing, leaves the baseline as build_state wrote it; a body that
\* is no array ends in an error and leaves the files alone too; a response
\* step that writes the baseline has applied every directive and returns Ok.
C20_BaselineAllOrNothing ==
    [][ (pc = "send" /\ pc' = "done" /\ resp'.kind \in {"array", "not_array"}) =>
            /\ result' = "err" => state_file' = state_file
            /\ resp'.kind = "not_array" => (result' = "err" /\ disk' = disk)
            /\ state_file' # state_file => result' = "ok" ]_vars

\* the second directive of a response failed after the first had written a
\* file that the baseline does not know
C20_Witness ==
    /\ pc = "done"
    /\ resp.kind = "array"
    /\ result = "err"
    /\ Len(resp.body) = 2
    /\ resp.body[1].action # "delete"
    /\ disk[resp.body[1].filename] = resp.body[1].contents
    /\ ~Tracked(state_file.entries, resp.body[1].filename)

\* C14: a round that starts on a zero-length baseline loads an empty mapping
\* and goes on (every scanned file is saved as a first observation); a round
\* that starts on an unreadable baseline ends at once without a success,
\* with the baseline, the files and the request untouched, and no request is
\* ever under way over an unreadable baseline.
C14_BaselineLoading ==
    /\ [][ (pc = "idle" /\ pc' # "idle") =>
              /\ state_file.kind = "empty" =>
                    /\ pc' = "build_post"
                    /\ old_vec' = {}
                    /\ state_file' = JsonFile(ScanDir(disk))
              /\ state_file.kind = "corrupt" =>
                    /\ pc' = "done"
                    /\ result' \notin {"ok", "none"}
                    /\ state_file' = state_file
                    /\ disk' = disk
                    /\ post' = NoPost
                    /\ resp' = NoResp ]_vars
    /\ [](state_file.kind = "corrupt" => (pc \in {"idle", "done"} /\ resp = NoResp))

\* a round has stopped on an unreadable baseline, with files in the root
C14_Witness ==
    /\ pc = "done"
    /\ result = "panic"
    /\ state_file = CorruptFile
    /\ \E f \in Files : disk[f] # NoFile

\* C19: every create or edit item of the request carries the digest of the
\* contents it carries, whatever happened to the file between the directory
\* walk and build_post.
C19_HashMatchesContents ==
    PostBuilt =>
        \A i \in post.files :
            i.action \in {"create", "edit"} => i.hash = digest(i.contents)

\* C11: two rounds on the same root never overlap: while one process is
\* between the start of its build_state and the return of sync_files, no
\* other process is.
C11_RoundsExclusive ==
    ~(pc \in {"build_post", "send"} /\ pc2 \in {"build_post", "send"})
====
